---- MODULE Spec2Model ----
(***************************************************************************)
(* Limit order book of src/src/main.rs: OrderBook (two BTreeMap ladders of *)
(* VecDeque<Order>, next_timestamp) and TradingEngine (book,               *)
(* next_order_id, trades_history).  OrderBook::place_order is modelled     *)
(* statement block by statement block with a program counter pc, so that   *)
(* the states inside the matching loops are visible; the states a caller   *)
(* can observe are those with pc = "idle" and epc = "idle".                *)
(***************************************************************************)
EXTENDS Integers, Sequences, FiniteSets, TLC

\* ------------------------------------------------------------------ bounds
MaxPrice == 2      \* largest integer price submitted
MaxQty == 2        \* largest integer quantity submitted
MaxOrders == 3     \* number of OrderBook::place_order calls in one run
MaxBookOrders == 2 \* the same, for the runs that call the book directly
MaxDepth == 2      \* largest depth passed to display_book

\* -------------------------------------------------------- program constants
FirstTimestamp == 1
FirstOrderId == 1000
ViewDepth == 5         \* levels per side shown by display_book_and_sales
SalesDepth == 10       \* trades shown by display_book_and_sales

Sides == {"Buy", "Sell"}

\* An f64 argument of TradingEngine::place_order is represented by the value
\* of its product with the scale factor (100.0 for the price, 10000.0 for
\* the quantity), counted in halves: h stands for the product h/2.
PriceInputs == -1 .. (2 * MaxPrice + 1)
QuantityInputs == -1 .. (2 * MaxQty + 1)

\* Arguments a caller of OrderBook::place_order can pass: any i64, any id.
BookPrices == -1 .. MaxPrice
BookQuantities == -1 .. MaxQty
BookIds == {1, 2}

VARIABLES
    buy_levels,       \* OrderBook.buy_levels : price -> queue of Order
    sell_levels,      \* OrderBook.sell_levels
    next_timestamp,   \* OrderBook.next_timestamp
    next_order_id,    \* TradingEngine.next_order_id
    trades_history,   \* TradingEngine.trades_history : Seq(<<Trade, stamp>>)
    pc,               \* position inside OrderBook::place_order
    epc,              \* position inside TradingEngine::place_order
    arg,              \* arguments of the current / last OrderBook::place_order
    trades,           \* local `trades`; the returned Vec<Trade> once pc = "idle"
    remaining_qty,    \* local `remaining_qty`
    timestamp,        \* local `timestamp`
    best_price,       \* local `best_sell_price` / `best_buy_price`
    result,           \* last Result of TradingEngine::place_order
    pre_buy_levels,   \* history: buy_levels when the current / last call began
    pre_sell_levels,  \* history: sell_levels when the current / last call began
    pre_timestamp,    \* history: next_timestamp when the current / last call began
    submitted,        \* history: id -> quantity of every order the engine accepted
    shown             \* what the last read-only query returned or displayed

vars == <<buy_levels, sell_levels, next_timestamp, next_order_id, trades_history,
          pc, epc, arg, trades, remaining_qty, timestamp, best_price, result,
          pre_buy_levels, pre_sell_levels, pre_timestamp, submitted, shown>>

bookVars == <<buy_levels, sell_levels, next_timestamp>>
engineVars == <<next_order_id, trades_history, epc, result>>
localVars == <<trades, remaining_qty, timestamp, best_price>>
preVars == <<pre_buy_levels, pre_sell_levels, pre_timestamp>>
auxVars == <<submitted, shown>>

\* ------------------------------------------------------------- data types
\* BTreeMap::new()
EmptyLevels == [p \in {} |-> <<>>]

Order(id, side, price, quantity, ts) ==
    [id |-> id, side |-> side, price |-> price, quantity |-> quantity, timestamp |-> ts]

Min(a, b) == IF a < b THEN a ELSE b

\* BTreeMap::keys().next(): the smallest key
FirstKey(levels) == CHOOSE k \in DOMAIN levels : \A j \in DOMAIN levels : k <= j

\* BTreeMap::keys().next_back(): the largest key
LastKey(levels) == CHOOSE k \in DOMAIN levels : \A j \in DOMAIN levels : k >= j

\* BTreeMap::remove(&key)
RemoveKey(levels, key) == [p \in DOMAIN levels \ {key} |-> levels[p]]

\* `expr as i64` on the f64 product h/2: truncation toward zero
ToI64(h) == IF h >= 0 THEN h \div 2 ELSE -((-h) \div 2)

\* ------------------------------------------------------------- counters
NextTimestampSame(ts) == ts
\* line 59: self.next_timestamp += 1
NextTimestamp(ts) == ts + 1

NextOrderIdSame(id) == id
\* line 272: self.next_order_id += 1
NextOrderId(id) == id + 1

\* nothing queried since the last call of place_order
NoView == [op |-> "none"]

\* ---------------------------------------------- steps of the matching loop
BestSellPriceLast(levels) == LastKey(levels)
\* line 64: self.sell_levels.keys().next()
BestSellPrice(levels) == FirstKey(levels)

BestBuyPriceFirst(levels) == FirstKey(levels)
\* line 112: self.buy_levels.keys().next_back()
BestBuyPrice(levels) == LastKey(levels)

BuyStopsAtOrBelow(price, best) == price <= best
\* line 69: `if price < best_sell_price { break; }`
BuyStops(price, best) == price < best

SellStopsAtOrAbove(price, best) == price >= best
\* line 117: `if price > best_buy_price { break; }`
SellStops(price, best) == price > best

PopBack(orders) ==
    [order |-> orders[Len(orders)], rest |-> SubSeq(orders, 1, Len(orders) - 1)]
\* lines 75 / 123: orders.pop_front() on a non-empty queue
PopFront(orders) == [order |-> Head(orders), rest |-> Tail(orders)]

PushFrontAtBack(orders, order) == Append(orders, order)
\* lines 89 / 137: orders.push_front(resting_order)
PushFront(orders, order) == <<order>> \o orders

PushBackAtFront(orders, order) == <<order>> \o orders
\* lines 174 / 180: .push_back(remaining_order)
PushBack(orders, order) == Append(orders, order)

TradeQtyUnit(remaining, resting_quantity) == 1

TradeQtyResting(remaining, resting_quantity) == resting_quantity
\* lines 76 / 124: std::cmp::min(remaining_qty, resting_order.quantity)
TradeQty(remaining, resting_quantity) == Min(remaining, resting_quantity)

TradeSwapped(resting_order, trade_qty, id) ==
    [price |-> resting_order.price, quantity |-> trade_qty,
     maker_id |-> id, taker_id |-> resting_order.id]
\* lines 78-83 / 126-131: the Trade pushed for one fill
Trade(resting_order, trade_qty, id) ==
    [price |-> resting_order.price, quantity |-> trade_qty,
     maker_id |-> resting_order.id, taker_id |-> id]

KeepLevel(levels, key) == levels
\* lines 98-103 / 146-151: level_empty = orders.is_empty(); remove the level if so
RemoveIfEmpty(levels, key) ==
    IF levels[key] = <<>> THEN RemoveKey(levels, key) ELSE levels

InsertOverwrite(levels, order) ==
    [p \in DOMAIN levels \cup {order.price} |->
        IF p = order.price THEN <<order>> ELSE levels[p]]
\* lines 171-174 / 177-180: entry(price).or_insert_with(VecDeque::new).push_back(order)
Insert(levels, order) ==
    [p \in DOMAIN levels \cup {order.price} |->
        IF p = order.price
        THEN PushBack(IF p \in DOMAIN levels THEN levels[p] ELSE <<>>, order)
        ELSE levels[p]]

FillKeepsEmpty(orders, remaining, id) ==
    LET popped == PopFront(orders)
        resting_order == popped.order
        trade_qty == TradeQty(remaining, resting_order.quantity)
        left == resting_order.quantity - trade_qty
    IN  [trade |-> Trade(resting_order, trade_qty, id),
         remaining |-> remaining - trade_qty,
         partial |-> left >= 0,
         orders |-> PushFront(popped.rest, [resting_order EXCEPT !.quantity = left])]

FillKeepsQuantity(orders, remaining, id) ==
    LET popped == PopFront(orders)
        resting_order == popped.order
        trade_qty == TradeQty(remaining, resting_order.quantity)
    IN  [trade |-> Trade(resting_order, trade_qty, id),
         remaining |-> remaining - trade_qty,
         partial |-> TRUE,
         orders |-> PushFront(popped.rest, resting_order)]

\* lines 75-96 / 123-144: one iteration of the level-drain loop on a non-empty
\* queue: the queue afterwards, the trade, and what is left of remaining_qty
Fill(orders, remaining, id) ==
    LET popped == PopFront(orders)
        resting_order == popped.order
        trade_qty == TradeQty(remaining, resting_order.quantity)
        left == resting_order.quantity - trade_qty
    IN  [trade |-> Trade(resting_order, trade_qty, id),
         remaining |-> remaining - trade_qty,
         partial |-> left > 0,
         orders |-> IF left > 0
                    THEN PushFront(popped.rest, [resting_order EXCEPT !.quantity = left])
                    ELSE popped.rest]

\* lines 291-295: the time string of the next history entry, as its three fields
Stamp(n) == <<(n \div 3600) % 24, (n \div 60) % 60, n % 60>>

RecordFirst(history, ts) ==
    IF ts = <<>> THEN history
    ELSE Append(history, <<Head(ts), Stamp(Len(history))>>)

RECURSIVE Record(_, _)
\* lines 282-296: push every returned trade, each stamped from the length so far
Record(history, ts) ==
    IF ts = <<>> THEN history
    ELSE Record(Append(history, <<Head(ts), Stamp(Len(history))>>), Tail(ts))

\* ------------------------------------------------------------------- Init
\* TradingEngine::new() / OrderBook::new()
Init ==
    /\ buy_levels = EmptyLevels
    /\ sell_levels = EmptyLevels
    /\ next_timestamp = FirstTimestamp
    /\ next_order_id = FirstOrderId
    /\ trades_history = <<>>
    /\ pc = "idle"
    /\ epc = "idle"
    /\ arg = [side |-> "Buy", price |-> 0, quantity |-> 0, id |-> 0]
    /\ trades = <<>>
    /\ remaining_qty = 0
    /\ timestamp = 0
    /\ best_price = 0
    /\ result = "none"
    /\ pre_buy_levels = EmptyLevels
    /\ pre_sell_levels = EmptyLevels
    /\ pre_timestamp = FirstTimestamp
    /\ submitted = <<>>
    /\ shown = NoView

\* ------------------------------------------------- TradingEngine::place_order
\* lines 262-278: convert, validate, allocate the id, call the book
EnginePlaceOrder(side, price, quantity) ==
    /\ pc = "idle" /\ epc = "idle"
    /\ next_timestamp - FirstTimestamp < MaxOrders
    /\ LET price_int == ToI64(price)
           quantity_int == ToI64(quantity)
       IN  IF quantity_int <= 0 \/ price_int <= 0
           THEN /\ result' = "Err"
                /\ UNCHANGED <<next_order_id, epc, pc, arg, submitted>>
           ELSE /\ next_order_id' = NextOrderId(next_order_id)
                /\ submitted' = [i \in DOMAIN submitted \cup {next_order_id} |->
                                    IF i = next_order_id THEN quantity_int
                                    ELSE submitted[i]]
                /\ arg' = [side |-> side, price |-> price_int,
                           quantity |-> quantity_int, id |-> next_order_id]
                /\ epc' = "call"
                /\ pc' = "entry"
                /\ UNCHANGED result
    /\ UNCHANGED <<bookVars, trades_history, localVars, preVars, shown>>

\* lines 280-301: after the book returns, record the trades and return Ok
EngineRecord ==
    /\ epc = "call" /\ pc = "idle"
    /\ trades_history' = Record(trades_history, trades)
    /\ result' = "Ok"
    /\ epc' = "idle"
    /\ UNCHANGED <<bookVars, next_order_id, pc, arg, localVars, preVars, auxVars>>

\* ----------------------------------------------------- OrderBook::place_order
\* a direct call of the public OrderBook::place_order, as the tests make
BookPlaceOrder(side, price, quantity, id) ==
    /\ pc = "idle" /\ epc = "idle"
    /\ next_timestamp - FirstTimestamp < MaxBookOrders
    /\ arg' = [side |-> side, price |-> price, quantity |-> quantity, id |-> id]
    /\ pc' = "entry"
    /\ UNCHANGED <<bookVars, engineVars, localVars, preVars, auxVars>>

\* lines 56-59
Entry ==
    /\ pc = "entry"
    /\ trades' = <<>>
    /\ remaining_qty' = arg.quantity
    /\ timestamp' = next_timestamp
    /\ next_timestamp' = NextTimestamp(next_timestamp)
    /\ pre_buy_levels' = buy_levels
    /\ pre_sell_levels' = sell_levels
    /\ pre_timestamp' = next_timestamp
    /\ shown' = NoView
    /\ pc' = "outer"
    /\ UNCHANGED <<buy_levels, sell_levels, engineVars, arg, best_price, submitted>>

\* lines 63-73: head of the Buy branch's outer loop
OuterBuy ==
    /\ pc = "outer" /\ arg.side = "Buy"
    /\ IF /\ remaining_qty > 0
          /\ DOMAIN sell_levels # {}
          /\ ~BuyStops(arg.price, BestSellPrice(sell_levels))
       THEN /\ best_price' = BestSellPrice(sell_levels)
            /\ pc' = "drain"
       ELSE /\ pc' = "rest"
            /\ UNCHANGED best_price
    /\ UNCHANGED <<bookVars, engineVars, arg, trades, remaining_qty, timestamp, preVars,
                   auxVars>>

\* lines 111-121: head of the Sell branch's outer loop
OuterSell ==
    /\ pc = "outer" /\ arg.side = "Sell"
    /\ IF /\ remaining_qty > 0
          /\ DOMAIN buy_levels # {}
          /\ ~SellStops(arg.price, BestBuyPrice(buy_levels))
       THEN /\ best_price' = BestBuyPrice(buy_levels)
            /\ pc' = "drain"
       ELSE /\ pc' = "rest"
            /\ UNCHANGED best_price
    /\ UNCHANGED <<bookVars, engineVars, arg, trades, remaining_qty, timestamp, preVars,
                   auxVars>>

\* lines 75-96: one iteration of `while let Some(..) = orders.pop_front()`
DrainSellLevel ==
    /\ pc = "drain" /\ arg.side = "Buy"
    /\ IF sell_levels[best_price] = <<>>
       THEN /\ pc' = "cleanup"
            /\ UNCHANGED <<sell_levels, trades, remaining_qty>>
       ELSE LET f == Fill(sell_levels[best_price], remaining_qty, arg.id)
            IN  /\ trades' = Append(trades, f.trade)
                /\ remaining_qty' = f.remaining
                /\ sell_levels' = [sell_levels EXCEPT ![best_price] = f.orders]
                /\ pc' = IF f.partial \/ f.remaining = 0 THEN "cleanup" ELSE "drain"
    /\ UNCHANGED <<buy_levels, next_timestamp, engineVars, arg, timestamp, best_price,
                   preVars, auxVars>>

\* lines 123-144
DrainBuyLevel ==
    /\ pc = "drain" /\ arg.side = "Sell"
    /\ IF buy_levels[best_price] = <<>>
       THEN /\ pc' = "cleanup"
            /\ UNCHANGED <<buy_levels, trades, remaining_qty>>
       ELSE LET f == Fill(buy_levels[best_price], remaining_qty, arg.id)
            IN  /\ trades' = Append(trades, f.trade)
                /\ remaining_qty' = f.remaining
                /\ buy_levels' = [buy_levels EXCEPT ![best_price] = f.orders]
                /\ pc' = IF f.partial \/ f.remaining = 0 THEN "cleanup" ELSE "drain"
    /\ UNCHANGED <<sell_levels, next_timestamp, engineVars, arg, timestamp, best_price,
                   preVars, auxVars>>

\* lines 98-107: drop the level if it is empty, leave the outer loop if filled
CleanupSellLevel ==
    /\ pc = "cleanup" /\ arg.side = "Buy"
    /\ sell_levels' = RemoveIfEmpty(sell_levels, best_price)
    /\ pc' = IF remaining_qty = 0 THEN "rest" ELSE "outer"
    /\ UNCHANGED <<buy_levels, next_timestamp, engineVars, arg, localVars, preVars, auxVars>>

\* lines 146-155
CleanupBuyLevel ==
    /\ pc = "cleanup" /\ arg.side = "Sell"
    /\ buy_levels' = RemoveIfEmpty(buy_levels, best_price)
    /\ pc' = IF remaining_qty = 0 THEN "rest" ELSE "outer"
    /\ UNCHANGED <<sell_levels, next_timestamp, engineVars, arg, localVars, preVars, auxVars>>

\* lines 160-185: rest what is left on the order's own side and return
Rest ==
    /\ pc = "rest"
    /\ LET remaining_order ==
               Order(arg.id, arg.side, arg.price, remaining_qty, timestamp)
       IN  IF remaining_qty > 0
           THEN IF arg.side = "Buy"
                THEN /\ buy_levels' = Insert(buy_levels, remaining_order)
                     /\ UNCHANGED sell_levels
                ELSE /\ sell_levels' = Insert(sell_levels, remaining_order)
                     /\ UNCHANGED buy_levels
           ELSE UNCHANGED <<buy_levels, sell_levels>>
    /\ pc' = "idle"
    /\ UNCHANGED <<next_timestamp, engineVars, arg, localVars, preVars, auxVars>>

\* the steps of OrderBook::place_order once it has been called
PlaceOrderStep ==
    \/ Entry
    \/ OuterBuy
    \/ OuterSell
    \/ DrainSellLevel
    \/ DrainBuyLevel
    \/ CleanupSellLevel
    \/ CleanupBuyLevel
    \/ Rest

\* ------------------------------------------------------------ specifications
\* the program: every order goes through TradingEngine::place_order
Next ==
    \/ \E side \in Sides, price \in PriceInputs, quantity \in QuantityInputs :
          EnginePlaceOrder(side, price, quantity)
    \/ EngineRecord
    \/ PlaceOrderStep

Spec == Init /\ [][Next]_vars

\* the book alone: OrderBook::place_order called directly with any arguments
NextBook ==
    \/ \E side \in Sides, price \in BookPrices, quantity \in BookQuantities,
          id \in BookIds :
          BookPlaceOrder(side, price, quantity, id)
    \/ PlaceOrderStep

SpecBook == Init /\ [][NextBook]_vars

\* ------------------------------------------------------------- book queries
\* Option<(i64, i64)>: <<>> is None, <<price, total_quantity>> is Some
None == <<>>

RECURSIVE SumQuantity(_)
\* orders.iter().map(|o| o.quantity).sum(), also used for a Vec<Trade>
SumQuantity(s) == IF s = <<>> THEN 0 ELSE Head(s).quantity + SumQuantity(Tail(s))

best_buy_lowest ==
    IF DOMAIN buy_levels = {} THEN None
    ELSE <<FirstKey(buy_levels), SumQuantity(buy_levels[FirstKey(buy_levels)])>>
\* lines 188-196
best_buy ==
    IF DOMAIN buy_levels = {} THEN None
    ELSE <<LastKey(buy_levels), SumQuantity(buy_levels[LastKey(buy_levels)])>>

\* lines 198-206
best_sell ==
    IF DOMAIN sell_levels = {} THEN None
    ELSE <<FirstKey(sell_levels), SumQuantity(sell_levels[FirstKey(sell_levels)])>>

\* ------------------------------------------------------------- book display
RECURSIVE Ascending(_)
\* BTreeMap::iter(): the keys in ascending order
Ascending(keys) ==
    IF keys = {} THEN <<>>
    ELSE LET k == CHOOSE x \in keys : \A y \in keys : x <= y
         IN  <<k>> \o Ascending(keys \ {k})

\* Vec::reverse() / Iterator::rev()
Reverse(s) == [i \in 1 .. Len(s) |-> s[Len(s) + 1 - i]]

\* Iterator::take(n)
Take(s, n) == SubSeq(s, 1, Min(n, Len(s)))

\* lines 219-223 / 236-240: one printed level: price, total quantity, order count
LevelRow(levels, price) == <<price, SumQuantity(levels[price]), Len(levels[price])>>

AskRowsLowest(depth) ==
    LET keys == Reverse(Take(Ascending(DOMAIN sell_levels), depth))
    IN  [i \in 1 .. Len(keys) |-> LevelRow(sell_levels, keys[i])]
\* lines 213-224 / 323-334: collect the sell levels, reverse them, take(depth)
AskRows(depth) ==
    LET keys == Take(Reverse(Ascending(DOMAIN sell_levels)), depth)
    IN  [i \in 1 .. Len(keys) |-> LevelRow(sell_levels, keys[i])]

BidRowsLowest(depth) ==
    LET keys == Take(Ascending(DOMAIN buy_levels), depth)
    IN  [i \in 1 .. Len(keys) |-> LevelRow(buy_levels, keys[i])]
\* lines 235-241 / 345-351: self.buy_levels.iter().rev().take(depth)
BidRows(depth) ==
    LET keys == Take(Reverse(Ascending(DOMAIN buy_levels)), depth)
    IN  [i \in 1 .. Len(keys) |-> LevelRow(buy_levels, keys[i])]

\* lines 227-230 / 337-340: <<ask - bid>>, or <<>> for "N/A"
Spread ==
    IF best_sell # None /\ best_buy # None
    THEN <<best_sell[1] - best_buy[1]>>
    ELSE <<>>

\* line 361: self.trades_history.iter().rev().take(10)
SalesRows == Take(Reverse(trades_history), SalesDepth)

\* a read-only call leaves every field of the book and of the engine alone
QueryFrame ==
    /\ pc = "idle" /\ epc = "idle"
    /\ UNCHANGED <<bookVars, engineVars, pc, arg, localVars, preVars, submitted>>

\* lines 188-196, called on the book
BestBuyQuery ==
    /\ QueryFrame
    /\ shown' = [op |-> "best_buy", value |-> best_buy]

\* lines 198-206, called on the book
BestSellQuery ==
    /\ QueryFrame
    /\ shown' = [op |-> "best_sell", value |-> best_sell]

\* lines 208-244: OrderBook::display_book(depth)
DisplayBook(depth) ==
    /\ QueryFrame
    /\ shown' = [op |-> "display_book", depth |-> depth,
                 asks |-> AskRows(depth), spread |-> Spread, bids |-> BidRows(depth)]

\* lines 315-383: TradingEngine::display_book_and_sales
DisplayBookAndSales ==
    /\ QueryFrame
    /\ shown' = [op |-> "display_book_and_sales", depth |-> ViewDepth,
                 asks |-> AskRows(ViewDepth), spread |-> Spread,
                 bids |-> BidRows(ViewDepth), sales |-> SalesRows]

\* the book with its read-only queries: valid orders placed on the book, and
\* between them any of the queries
NextQuery ==
    \/ \E side \in Sides, price \in 1 .. MaxPrice, quantity \in 1 .. MaxQty,
          id \in BookIds :
          BookPlaceOrder(side, price, quantity, id)
    \/ PlaceOrderStep
    \/ BestBuyQuery
    \/ BestSellQuery
    \/ \E depth \in 0 .. MaxDepth : DisplayBook(depth)
    \/ DisplayBookAndSales

SpecQuery == Init /\ [][NextQuery]_vars

\* --------------------------------------------- vocabulary of the properties
Range(s) == {s[i] : i \in DOMAIN s}

\* every order resting in a ladder
Resting(levels) == UNION {Range(levels[p]) : p \in DOMAIN levels}

RECURSIVE SumOver(_, _)
SumOver(levels, keys) ==
    IF keys = {} THEN 0
    ELSE LET k == CHOOSE x \in keys : TRUE
         IN  SumQuantity(levels[k]) + SumOver(levels, keys \ {k})

\* total quantity resting in a ladder
LadderQuantity(levels) == SumOver(levels, DOMAIN levels)

\* the last call of OrderBook::place_order has returned
Returned == pc = "idle" /\ next_timestamp > FirstTimestamp

ValidArgs == arg.price > 0 /\ arg.quantity > 0

\* the ladder the last call matched against / rested on, now and when it began
OppLevels == IF arg.side = "Buy" THEN sell_levels ELSE buy_levels
OwnLevels == IF arg.side = "Buy" THEN buy_levels ELSE sell_levels
PreOppLevels == IF arg.side = "Buy" THEN pre_sell_levels ELSE pre_buy_levels
PreOwnLevels == IF arg.side = "Buy" THEN pre_buy_levels ELSE pre_sell_levels

\* the best opposite price for an incoming order of arg.side
BestOpp(levels) == IF arg.side = "Buy" THEN FirstKey(levels) ELSE LastKey(levels)

\* price p is at or better than the incoming limit
Reaches(p) == IF arg.side = "Buy" THEN p <= arg.price ELSE p >= arg.price

\* quantity resting in own ladder under the incoming id
ResidualQuantity ==
    LET mine == {o \in Resting(OwnLevels) : o.id = arg.id}
    IN  IF mine = {} THEN 0 ELSE (CHOOSE o \in mine : TRUE).quantity

\* quantity traded in the last call with maker id
RECURSIVE FilledQuantity(_, _)
FilledQuantity(ts, id) ==
    IF ts = <<>> THEN 0
    ELSE (IF Head(ts).maker_id = id THEN Head(ts).quantity ELSE 0)
         + FilledQuantity(Tail(ts), id)

Makers(ts) == {ts[i].maker_id : i \in DOMAIN ts}

\* ids that were maker of some trade, in a returned call or the running one
EverMaker == Makers(trades) \cup {trades_history[i][1].maker_id : i \in DOMAIN trades_history}

\* ------------------------------------------------------------------ claims

\* C1 (non-crossing): whenever no place_order call is running, one ladder is
\* empty or the best bid price is strictly below the best ask price.
NonCrossing ==
    pc = "idle" =>
        \/ best_buy = None
        \/ best_sell = None
        \/ best_buy[1] < best_sell[1]

\* a call that traded has returned and left orders on both sides
NonCrossingWitness ==
    /\ Returned /\ trades # <<>>
    /\ best_buy # None /\ best_sell # None

\* C2 (quantity conservation): when a valid call returns, traded quantity plus
\* the quantity left resting under the incoming id is the submitted quantity,
\* and the opposite ladder lost exactly the traded quantity.
QuantityConservation ==
    (Returned /\ ValidArgs) =>
        /\ SumQuantity(trades) + ResidualQuantity = arg.quantity
        /\ LadderQuantity(PreOppLevels) - LadderQuantity(OppLevels) = SumQuantity(trades)

\* a call traded part of its quantity and rested the remainder
QuantityConservationWitness ==
    /\ Returned /\ ValidArgs
    /\ trades # <<>> /\ ResidualQuantity > 0

\* C3 (time priority): of two orders that rested at one price when the call
\* began, the later one is a maker of the call only if the earlier one is a
\* maker before it and has been filled completely and removed.
TimePriority ==
    Returned =>
        \A p \in DOMAIN PreOppLevels :
            \A o1, o2 \in Range(PreOppLevels[p]) :
                (o1.timestamp < o2.timestamp /\ o2.id \in Makers(trades)) =>
                    /\ \E a, b \in DOMAIN trades :
                          a < b /\ trades[a].maker_id = o1.id /\ trades[b].maker_id = o2.id
                    /\ FilledQuantity(trades, o1.id) = o1.quantity
                    /\ \A o \in Resting(OppLevels) : o.id # o1.id

\* one call traded against two orders of the same level
TimePriorityWitness ==
    /\ Returned
    /\ \E p \in DOMAIN PreOppLevels :
          \E o1, o2 \in Range(PreOppLevels[p]) :
              /\ o1.timestamp < o2.timestamp
              /\ {o1.id, o2.id} \subseteq Makers(trades)

\* C4 (partial-fill priority): an order partly filled by a call is the front of
\* its level, with the unfilled quantity, when the call returns; as long as it
\* rests it stays the front of its level, and every trade at its level has it
\* as maker, whatever arrived after the fill.
PartialAtFrontOnReturn ==
    Returned =>
        \A o \in Resting(PreOppLevels) :
            LET filled == FilledQuantity(trades, o.id)
            IN  (0 < filled /\ filled < o.quantity) =>
                    /\ o.price \in DOMAIN OppLevels
                    /\ OppLevels[o.price] # <<>>
                    /\ Head(OppLevels[o.price]) = [o EXCEPT !.quantity = o.quantity - filled]

PartialStaysAtFront ==
    \A levels \in {buy_levels, sell_levels} :
        \A p \in DOMAIN levels :
            \A i \in DOMAIN levels[p] :
                levels[p][i].id \in EverMaker => i = 1

PartialMatchedNext ==
    Len(trades') = Len(trades) + 1 =>
        LET t == trades'[Len(trades')]
        IN  \A o \in Range(OppLevels[t.price]) :
                o.id \in EverMaker => t.maker_id = o.id

RejectionNoSideEffects ==
    (Returned /\ ~ValidArgs) =>
        /\ trades = <<>>
        /\ buy_levels = pre_buy_levels
        /\ sell_levels = pre_sell_levels
        /\ next_timestamp = pre_timestamp

\* C6 (maker-price execution): every returned trade carries the price and the
\* id of an order that rested on the opposite side when the call began and the
\* incoming id as taker, at a price no worse than the incoming limit.
MakerPriceExecution ==
    Returned =>
        \A i \in DOMAIN trades :
            /\ trades[i].taker_id = arg.id
            /\ \E p \in DOMAIN PreOppLevels :
                  \E o \in Range(PreOppLevels[p]) :
                      /\ o.id = trades[i].maker_id
                      /\ o.price = trades[i].price
                      /\ p = trades[i].price
            /\ Reaches(trades[i].price)

\* a trade executed at the maker's price, better than the taker's limit
MakerPriceExecutionWitness ==
    /\ Returned
    /\ \E i \in DOMAIN trades : trades[i].price # arg.price

\* C7 (price priority): each trade is made with the front order of the best
\* opposite level at that moment, and the returned trade prices never improve
\* along the sequence (non-decreasing for a Buy, non-increasing for a Sell).
MakerIsBestFront ==
    Len(trades') = Len(trades) + 1 =>
        LET t == trades'[Len(trades')]
            best == BestOpp(OppLevels)
        IN  /\ OppLevels[best] # <<>>
            /\ Head(OppLevels[best]).id = t.maker_id
            /\ t.price = best
            /\ \A o \in Resting(OppLevels) :
                  IF arg.side = "Buy" THEN o.price >= t.price ELSE o.price <= t.price

TradePricesMonotone ==
    Returned =>
        \A i, j \in DOMAIN trades :
            i < j => IF arg.side = "Buy"
                     THEN trades[i].price <= trades[j].price
                     ELSE trades[i].price >= trades[j].price

PricePriority ==
    /\ []TradePricesMonotone
    /\ [][MakerIsBestFront]_vars

\* one call traded at two different prices
PricePriorityWitness ==
    /\ Returned
    /\ \E i, j \in DOMAIN trades : trades[i].price # trades[j].price

\* C8 (maximal fill): the traded quantity of a valid call is the smaller of the
\* submitted quantity and the quantity that rested at or better than the limit
\* on the opposite side; an order no larger than the front marketable order
\* gives one trade of its whole quantity and nothing rests for it.
MarketableQuantity ==
    SumOver(PreOppLevels, {p \in DOMAIN PreOppLevels : Reaches(p)})

MaximalFill ==
    (Returned /\ ValidArgs) =>
        /\ SumQuantity(trades) = Min(arg.quantity, MarketableQuantity)
        /\ (/\ DOMAIN PreOppLevels # {}
            /\ Reaches(BestOpp(PreOppLevels))
            /\ arg.quantity <= Head(PreOppLevels[BestOpp(PreOppLevels)]).quantity)
           => /\ Len(trades) = 1
              /\ trades[1].quantity = arg.quantity
              /\ ResidualQuantity = 0

\* a call took all that its limit reached, less than it asked for, while
\* worse-priced orders stayed on the opposite side
MaximalFillWitness ==
    /\ Returned /\ ValidArgs
    /\ 0 < SumQuantity(trades) /\ SumQuantity(trades) < arg.quantity
    /\ DOMAIN OppLevels # {}

\* C9 (level cleanup): whenever no call is running, no ladder holds a price
\* whose queue is empty.
LevelCleanup ==
    pc = "idle" =>
        /\ \A p \in DOMAIN buy_levels : buy_levels[p] # <<>>
        /\ \A p \in DOMAIN sell_levels : sell_levels[p] # <<>>

\* a call drained a level completely and the level is gone
LevelCleanupWitness ==
    /\ Returned
    /\ \E p \in DOMAIN PreOppLevels : p \notin DOMAIN OppLevels

\* C10 (non-marketable orders rest untouched): a valid call that finds the
\* opposite ladder empty, or its best price beyond the limit, returns no trade,
\* leaves the opposite ladder as it was and appends one order with the
\* submitted id, price and quantity to the level of that price on its own side.
NonMarketable ==
    \/ DOMAIN PreOppLevels = {}
    \/ ~Reaches(BestOpp(PreOppLevels))

NonMarketableRests ==
    (Returned /\ ValidArgs /\ NonMarketable) =>
        /\ trades = <<>>
        /\ OppLevels = PreOppLevels
        /\ DOMAIN OwnLevels = DOMAIN PreOwnLevels \cup {arg.price}
        /\ \A p \in DOMAIN PreOwnLevels : p # arg.price => OwnLevels[p] = PreOwnLevels[p]
        /\ LET before == IF arg.price \in DOMAIN PreOwnLevels
                         THEN PreOwnLevels[arg.price] ELSE <<>>
               after == OwnLevels[arg.price]
           IN  /\ Len(after) = Len(before) + 1
               /\ SubSeq(after, 1, Len(before)) = before
               /\ after[Len(after)].id = arg.id
               /\ after[Len(after)].side = arg.side
               /\ after[Len(after)].price = arg.price
               /\ after[Len(after)].quantity = arg.quantity

\* an order that could not trade, with orders on the opposite side, joined a
\* level that already held an order
NonMarketableRestsWitness ==
    /\ Returned /\ ValidArgs /\ NonMarketable
    /\ DOMAIN PreOppLevels # {}
    /\ arg.price \in DOMAIN PreOwnLevels

\* every position of a ladder that holds an order, and the order it holds
Slots ==
    UNION {{<<"Buy", p, i>> : i \in DOMAIN buy_levels[p]} : p \in DOMAIN buy_levels}
    \cup UNION {{<<"Sell", p, i>> : i \in DOMAIN sell_levels[p]} : p \in DOMAIN sell_levels}

OrderAt(slot) ==
    IF slot[1] = "Buy" THEN buy_levels[slot[2]][slot[3]] ELSE sell_levels[slot[2]][slot[3]]

\* C11 (sequence monotonicity): the sequence counter never decreases; each call
\* is stamped above the call before it and below the counter; every resting
\* order carries a stamp below the stamp of the running call, and no two
\* resting orders carry the same stamp.
StampsDistinct ==
    /\ \A s \in Slots : OrderAt(s).timestamp < next_timestamp
    /\ pc \in {"outer", "drain", "cleanup"} =>
           \A s \in Slots : OrderAt(s).timestamp < timestamp
    /\ \A s1, s2 \in Slots : s1 # s2 => OrderAt(s1).timestamp # OrderAt(s2).timestamp

StampsAdvance ==
    /\ next_timestamp' >= next_timestamp
    /\ pc = "entry" => (timestamp' > timestamp /\ next_timestamp' > timestamp')
    /\ pc # "entry" => timestamp' = timestamp

SequenceMonotonic ==
    /\ []StampsDistinct
    /\ [][StampsAdvance]_vars

\* two orders rest whose stamps are not consecutive: a call between them took a
\* stamp and left nothing resting
SequenceMonotonicWitness ==
    /\ pc = "idle"
    /\ \E s1, s2 \in Slots : OrderAt(s2).timestamp > OrderAt(s1).timestamp + 1

\* C12 (FIFO inside a level): in every state the stamps of each level's queue
\* increase strictly from front to back, and a step of the matching loop leaves
\* every queue as it is, removes its front order, or lowers the quantity of its
\* front order; it never touches an order behind the front.
QueuesInArrivalOrder ==
    \A levels \in {buy_levels, sell_levels} :
        \A p \in DOMAIN levels :
            \A i, j \in DOMAIN levels[p] :
                i < j => levels[p][i].timestamp < levels[p][j].timestamp

FrontChange(old, new) ==
    \/ new = old
    \/ old # <<>> /\ new = Tail(old)
    \/ /\ old # <<>> /\ new # <<>>
       /\ Tail(new) = Tail(old)
       /\ new[1].quantity < old[1].quantity
       /\ new[1] = [old[1] EXCEPT !.quantity = new[1].quantity]

MatchingTakesFront ==
    pc = "drain" =>
        /\ DOMAIN buy_levels' = DOMAIN buy_levels
        /\ DOMAIN sell_levels' = DOMAIN sell_levels
        /\ \A p \in DOMAIN buy_levels : FrontChange(buy_levels[p], buy_levels'[p])
        /\ \A p \in DOMAIN sell_levels : FrontChange(sell_levels[p], sell_levels'[p])

FifoInLevel ==
    /\ []QueuesInArrivalOrder
    /\ [][MatchingTakesFront]_vars

\* a level holds two orders and the front one has just been partly filled
FifoInLevelWitness ==
    /\ Returned
    /\ \E p \in DOMAIN OppLevels :
          /\ Len(OppLevels[p]) >= 2
          /\ OppLevels[p][1].id \in Makers(trades)

\* C13 (best-price queries): best_buy returns None exactly when the bid ladder
\* is empty and otherwise the highest bid price with the total quantity of that
\* level alone; best_sell likewise with the lowest ask price; a query changes
\* neither ladder nor the sequence counter.
BestOf(levels, value, highest) ==
    IF DOMAIN levels = {} THEN value = None
    ELSE /\ value # None
         /\ value[1] \in DOMAIN levels
         /\ \A p \in DOMAIN levels : IF highest THEN p <= value[1] ELSE p >= value[1]
         /\ value[2] = SumOver(levels, {value[1]})

BestPriceAnswers ==
    /\ shown.op = "best_buy" => BestOf(buy_levels, shown.value, TRUE)
    /\ shown.op = "best_sell" => BestOf(sell_levels, shown.value, FALSE)

QueryStep == pc = "idle" /\ pc' = "idle" /\ shown' # shown

QueriesReadOnly ==
    QueryStep => UNCHANGED <<buy_levels, sell_levels, next_timestamp>>

BestPriceQueries ==
    /\ []BestPriceAnswers
    /\ [][QueriesReadOnly]_vars

\* best_buy answered with the best level while a second bid level rests
BestPriceQueriesWitness ==
    /\ shown.op = "best_buy" /\ shown.value # None
    /\ LadderQuantity(buy_levels) > shown.value[2]

\* the n best keys of a ladder side: the n highest, or the n lowest
TopKeys(keys, n, highest) ==
    {k \in keys : Cardinality({j \in keys : IF highest THEN j > k ELSE j < k}) < n}

\* the rows a snapshot of depth n should show for one side
TopRows(levels, n, highest) ==
    {<<k, SumOver(levels, {k}), Len(levels[k])>> : k \in TopKeys(DOMAIN levels, n, highest)}

\* C14 (depth snapshot): a display of depth N shows, per side, exactly the N
\* best-priced levels (the N lowest asks, the N highest bids, or all of them
\* when there are fewer), each with its total quantity and its order count.
DepthSnapshot ==
    shown.op \in {"display_book", "display_book_and_sales"} =>
        /\ Range(shown.asks) = TopRows(sell_levels, shown.depth, FALSE)
        /\ Len(shown.asks) = Cardinality(TopRows(sell_levels, shown.depth, FALSE))
        /\ Range(shown.bids) = TopRows(buy_levels, shown.depth, TRUE)
        /\ Len(shown.bids) = Cardinality(TopRows(buy_levels, shown.depth, TRUE))

\* the trades of the history, without their time strings
HistoryTrades == [i \in DOMAIN trades_history |-> trades_history[i][1]]

\* C15 (trade tape): a step never changes or removes an entry of
\* trades_history; the step that ends an accepted TradingEngine::place_order
\* appends exactly the trades the book returned, in their order; no other step,
\* a rejection included, appends anything.  Hence the history always ends with
\* the trades of the last accepted order.
TapeStep ==
    /\ Len(trades_history') >= Len(trades_history)
    /\ SubSeq(trades_history', 1, Len(trades_history)) = trades_history
    /\ IF epc = "call" /\ epc' = "idle"
       THEN /\ Len(trades_history') = Len(trades_history) + Len(trades)
            /\ \A i \in DOMAIN trades :
                  trades_history'[Len(trades_history) + i][1] = trades[i]
       ELSE trades_history' = trades_history

TapeEndsWithLastTrades ==
    (pc = "idle" /\ epc = "idle") =>
        /\ Len(trades_history) >= Len(trades)
        /\ SubSeq(HistoryTrades, Len(trades_history) - Len(trades) + 1,
                  Len(trades_history)) = trades

TradeTape ==
    /\ []TapeEndsWithLastTrades
    /\ [][TapeStep]_vars

\* the history holds the trades of an earlier order followed by the trades of
\* the last one
TradeTapeWitness ==
    /\ pc = "idle" /\ epc = "idle"
    /\ trades # <<>>
    /\ Len(trades_history) > Len(trades)

\* an order was rejected after trades had been recorded
TradeTapeRejected ==
    /\ result = "Err" /\ trades_history # <<>>

\* what is left for the running call to match against: the orders and the
\* levels of the opposite ladder
OppWork == Cardinality({s \in Slots : s[1] # arg.side}) + Cardinality(DOMAIN OppLevels)

PcRank ==
    CASE pc = "idle" -> 0
      [] pc = "rest" -> 1
      [] pc = "cleanup" -> 2
      [] pc = "drain" -> 3
      [] pc = "outer" -> 4
      [] pc = "entry" -> 5

\* a natural number that every step of a running call lowers
Measure == 5 * OppWork + PcRank

\* a running call always has a next step
CallCanStep == pc # "idle" => (Measure > 0 /\ ENABLED PlaceOrderStep)

\* every step of a running call lowers Measure; a fill lowers remaining_qty or
\* removes a resting order; the outer loop is left as soon as remaining_qty is
\* 0, the opposite ladder is empty or its best price is beyond the limit
CallStep ==
    /\ pc # "idle" => Measure' < Measure
    /\ Len(trades') = Len(trades) + 1 =>
           \/ remaining_qty' < remaining_qty
           \/ Cardinality(Slots') < Cardinality(Slots)
    /\ (/\ pc = "outer"
        /\ \/ remaining_qty = 0
           \/ DOMAIN OppLevels = {}
           \/ ~Reaches(BestOpp(OppLevels))) => pc' = "rest"
    /\ (pc = "cleanup" /\ remaining_qty = 0) => pc' = "rest"

\* the scheduling of the code: a call that has started runs on, statement
\* after statement
SpecFair == Spec /\ WF_vars(PlaceOrderStep)

Terminates == (pc # "idle") ~> (pc = "idle")

\* C16 (termination): a call of place_order that has started returns; until
\* then it always has a next step and every step lowers Measure; a fill lowers
\* remaining_qty or removes a resting order; the outer loop is left as soon as
\* remaining_qty is 0, the opposite ladder is empty or its best price is beyond
\* the limit.
Termination ==
    /\ []CallCanStep
    /\ [][CallStep]_vars
    /\ Terminates

\* a call went round the outer loop twice: it drained one level, removed it
\* and matched at the next
TerminationWitness ==
    /\ pc = "drain"
    /\ trades # <<>>
    /\ trades[1].price # best_price

\* C17 (resting-order well-formedness): every order in a ladder has a positive
\* quantity and a positive price, its price is the key of its level and its
\* side is that of its ladder; every trade returned or recorded has a positive
\* quantity.
WellFormed ==
    /\ \A s \in Slots :
          LET o == OrderAt(s)
          IN  /\ o.quantity > 0
              /\ o.price > 0
              /\ o.price = s[2]
              /\ o.side = s[1]
    /\ \A i \in DOMAIN trades : trades[i].quantity > 0
    /\ \A i \in DOMAIN trades_history : trades_history[i][1].quantity > 0

\* both ladders hold orders, one of them left over from a partial fill
WellFormedWitness ==
    /\ pc = "idle" /\ epc = "idle"
    /\ buy_levels # EmptyLevels /\ sell_levels # EmptyLevels
    /\ \E s \in Slots : OrderAt(s).id \in EverMaker

\* the orders of the opposite ladder, as it was at the call, that the call
\* traded with without filling them
PartialMakers ==
    {o \in Resting(PreOppLevels) :
        /\ o.id \in Makers(trades)
        /\ FilledQuantity(trades, o.id) < o.quantity}

\* the maker of trade i was filled and is in neither ladder any more
MakerGone(i) ==
    /\ \E o \in Resting(PreOppLevels) :
          /\ o.id = trades[i].maker_id
          /\ o.quantity = trades[i].quantity
    /\ \A s \in Slots : OrderAt(s).id # trades[i].maker_id

PartialOnlyLast ==
    Returned =>
        /\ Cardinality(PartialMakers) <= 1
        /\ \A i, j \in DOMAIN trades : i # j => trades[i].maker_id # trades[j].maker_id
        /\ \A i \in DOMAIN trades : i < Len(trades) => MakerGone(i)
        /\ \A o \in PartialMakers :
              /\ o.id = trades[Len(trades)].maker_id
              /\ remaining_qty = 0
              /\ \A s \in Slots : OrderAt(s).id # arg.id

\* the step that puts a maker back at the front of its level has brought
\* remaining_qty to 0 and leaves the drain loop
PartialStep ==
    (/\ pc = "drain"
     /\ Len(trades') = Len(trades) + 1
     /\ \E s \in Slots' : OrderAt(s)'.id = trades'[Len(trades')].maker_id) =>
        /\ remaining_qty' = 0
        /\ pc' = "cleanup"

\* C18 (partial fill ends the match): a call fills at most one resting order
\* partially; that order is the maker of the last returned trade, the incoming
\* order is then exhausted and nothing rests under its id; the makers of the
\* earlier trades are filled and out of the book.
PartialFillEndsMatch ==
    /\ []PartialOnlyLast
    /\ [][PartialStep]_vars

\* a call filled one order, then filled the next one partially
PartialFillEndsMatchWitness ==
    /\ Returned
    /\ Len(trades) >= 2
    /\ PartialMakers # {}

\* quantity traded in ts with taker id
RECURSIVE TakenQuantity(_, _)
TakenQuantity(ts, id) ==
    IF ts = <<>> THEN 0
    ELSE (IF Head(ts).taker_id = id THEN Head(ts).quantity ELSE 0)
         + TakenQuantity(Tail(ts), id)

\* quantity resting under id, 0 if it is not in the book
RestingQuantity(id) ==
    LET mine == {s \in Slots : OrderAt(s).id = id}
    IN  IF mine = {} THEN 0 ELSE OrderAt(CHOOSE s \in mine : TRUE).quantity

\* every trade so far: the recorded ones and those of the running call
AllTrades ==
    HistoryTrades \o (IF epc = "call" /\ pc # "entry" THEN trades ELSE <<>>)

LifetimeBalance ==
    (pc = "idle" /\ epc = "idle") =>
        \A id \in DOMAIN submitted :
            TakenQuantity(HistoryTrades, id) + FilledQuantity(HistoryTrades, id)
                + RestingQuantity(id) = submitted[id]

\* a trade is made only with a maker that is not yet filled
MakerNotYetFilled ==
    Len(trades') = Len(trades) + 1 =>
        LET id == trades'[Len(trades')].maker_id
        IN  /\ id \in DOMAIN submitted
            /\ TakenQuantity(AllTrades, id) + FilledQuantity(AllTrades, id) < submitted[id]

\* C19 (lifetime conservation per order): between calls, for every submitted
\* id, the quantity it traded as taker, the quantity it traded as maker and the
\* quantity it has resting add up to the quantity it was submitted with; an id
\* that has been filled is never a maker again.
LifetimeConservation ==
    /\ []LifetimeBalance
    /\ [][MakerNotYetFilled]_vars

\* an order traded as taker, rested, and was later filled as maker
LifetimeConservationWitness ==
    /\ pc = "idle" /\ epc = "idle"
    /\ \E id \in DOMAIN submitted :
          /\ TakenQuantity(HistoryTrades, id) > 0
          /\ FilledQuantity(HistoryTrades, id) > 0
          /\ RestingQuantity(id) = 0

\* the ids given out so far are FirstOrderId, FirstOrderId + 1, ... without a gap
IdsInOrder == DOMAIN submitted = FirstOrderId .. (next_order_id - 1)

\* no id rests twice, and only ids that were given out rest
IdsRestOnce ==
    /\ \A s, t \in Slots : OrderAt(s).id = OrderAt(t).id => s = t
    /\ \A s \in Slots : OrderAt(s).id \in DOMAIN submitted

\* the maker of a trade was accepted before its taker
MakerBeforeTaker ==
    /\ \A i \in DOMAIN trades : trades[i].maker_id < trades[i].taker_id
    /\ \A i \in DOMAIN trades_history :
          trades_history[i][1].maker_id < trades_history[i][1].taker_id

\* an accepted order takes the next id; no other step, a rejection included,
\* moves the counter
AllocationStep ==
    IF epc = "idle" /\ epc' = "call"
    THEN /\ arg'.id = next_order_id
         /\ next_order_id' = next_order_id + 1
    ELSE next_order_id' = next_order_id

\* C20 (order-id allocation): ids start at 1000 (FirstOrderId); each accepted
\* order takes the next id and a rejected order takes none; so an id rests in
\* the book at most once and in every trade maker_id < taker_id, hence never
\* maker_id = taker_id.
IdAllocation ==
    /\ [](IdsInOrder /\ IdsRestOnce /\ MakerBeforeTaker)
    /\ [][AllocationStep]_vars

\* two orders were accepted and traded, one of them rests, and a third was
\* rejected without taking an id
IdAllocationWitness ==
    /\ epc = "idle" /\ result = "Err"
    /\ next_order_id = FirstOrderId + 2
    /\ trades_history # <<>>
    /\ Slots # {}

====
